---- MODULE Spec2Model ----
(***************************************************************************)
(* Cohort labelling of the MBS-PBS 10% data set (mbspbs10pc).              *)
(*                                                                         *)
(* SpecCohort : find_positive_samples, find_negative_samples,              *)
(*              find_metonly and find_metafter applied to one event        *)
(*              mapping dd, one concession set cc and one target year.     *)
(* SpecScan   : find_diabetics / find_diabetes_drugs_users / worker, the   *)
(*              parallel scan of one yearly PBS file.                      *)
(* SpecDiabetics : find_diabetics over two yearly files, with workers that *)
(*              may raise.                                                 *)
(* SpecPipeline : find_diabetics followed by the cohort functions, with    *)
(*              supply dates that may be in another format.                *)
(* SpecPad    : the 6-digit notation of the diabetes reference codes.      *)
(* SpecEnc    : timespan_encoding.                                         *)
(* SpecSeq    : get_raw_data / extract_sequence over the MBS files.        *)
(* SpecScanFair : the scan of one file under fair scheduling, with workers *)
(*              that may raise and worker processes that may die.          *)
(* SpecNegative : the two loops of find_negative_samples, file by file,    *)
(*              over every order of the files.                             *)
(***************************************************************************)
EXTENDS Integers, Sequences, FiniteSets, TLC

\* ---------------------------------------------------------------- bounds
\* yearly PBS files PBS_SAMPLE_10PCT_<year>.csv, FirstYear onwards
NumYears == 3
\* rows of one patient's yearly record
MaxRec == 2
\* rows of the yearly file that is scanned, and worker processes of its scan
MaxRows == 3
MaxJobs == 2

\* first year scanned by find_positive_samples: np.arange(2008, target_year)
FirstYear == 2008

\* PTNT_IDs of the cohort functions: they treat the patients one by one, only
\* df holds the rows of several patients
Pids == {1, 2}
\* PTNT_IDs of the scanned file: enough for shards of unequal size
Pins == {1, 2, 3}
Years == FirstYear..(FirstYear + NumYears - 1)

\* ---------------------------------------------------------------- data
\* SPPLY_DT texts in the format '%d%b%Y' within one yearly file: <<day, month>>.
\* As texts "01FEB" sorts before "02JAN"; as dates 02JAN comes first.
Dates == {<<2, "JAN">>, <<1, "FEB">>}

MonthNumber == [JAN |-> 1, FEB |-> 2]

\* pd.to_datetime(x, format='%d%b%Y'): the day number within the year
to_datetime(x) == (MonthNumber[x[2]] - 1) * 31 + x[1]

\* ITM_CD values: a metformin code, another diabetes code, a code outside
\* drugs_used_in_diabetes.csv
met_items == {"MET"}
DiabetesCodes == {"MET", "DIA"}
OtherCodes == {"OTH"}

\* python min() over a non-empty collection of numbers
Min(S) == CHOOSE x \in S : \A y \in S : x <= y

\* python zip() stops at the shorter list
ZipLen(a, b) == IF Len(a) <= Len(b) THEN Len(a) ELSE Len(b)

\* the ascending sequence of a finite set of integers (np.unique, sorted)
RECURSIVE SortedSeq(_)
SortedSeq(S) ==
    IF S = {} THEN <<>>
    ELSE LET m == Min(S) IN <<m>> \o SortedSeq(S \ {m})

\* a dict: keys K, values from V
Mappings(V) == UNION {[K -> V] : K \in SUBSET Pids}

\* the value stored per patient by worker(): two parallel lists
Records(n) ==
    UNION {{[SPPLY_DT |-> d, ITM_CD |-> i] :
               d \in [1..k -> Dates], i \in [1..k -> DiabetesCodes]} : k \in 1..n}

VARIABLES
    dd,             \* output of find_diabetics: year -> (PTNT_ID -> record)
    cc,             \* continuously and consistently concessional PTNT_IDs
    target_year,
    pbs_files,      \* list of the yearly files (their years)
    claimants,      \* year -> PTNT_ID column of that file, as a set
    positive,       \* out of find_positive_samples
    negative,       \* negative_subjects of find_negative_samples
    metonly,        \* out of find_metonly
    metafter,       \* out of find_metafter
    tmp_sorted,     \* find_metafter: idx -> tmp after sort_values
    pc,
    pbs,            \* the rows of one yearly PBS file, in file order
    co_payment,     \* <<>> for None, <<t>> for the year's threshold t
    n_jobs,
    PBS_FILES_DICT, \* ___PBS_FILES_DICT__[pbs]: the loaded, filtered table
    pin_splits,     \* np.array_split(ptnt_ids, n_jobs)
    kpos,           \* job i -> k, the number of pins of its split already processed
    results,        \* manager.dict()
    collected,      \* number of jobs whose get() has returned
    ret,            \* dict(results) as returned
    failed,         \* the jobs whose worker has raised an exception
    writers,        \* PTNT_ID -> the jobs that have set results[PTNT_ID], in order
    dead,           \* the jobs whose worker process has died while running them
    spc,
    pbs_csv,        \* find_diabetics: year -> rows of that yearly file
    filter_copayments,
    loaded,         \* the whole ___PBS_FILES_DICT__: year -> filtered table
    fidx,           \* number of files of sorted(pbs_files) already scanned
    out,            \* out of find_diabetics
    fret,           \* <<>> until find_diabetics returns, then <<out>>
    raw_dd,         \* _dd.values.ravel(): the codes of drugs_used_in_diabetes.csv
    dd_codes,       \* the set dd of find_diabetics, filled code by code
    pad_i,          \* number of codes of raw_dd already added
    days,           \* argument of timespan_encoding
    enc,            \* what timespan_encoding(days) returned or raised
    epc,
    mbs_files,      \* get_raw_data: the MBS files, each the list of its rows
    exclude_pregnancy,
    dfs,            \* PIN -> START_DATE, END_DATE, SEX, YOB (source merged with the lookout)
    mbs_df,         \* the rows kept from all the files, DOS converted
    grouped,        \* the PINs of the groups, in the order apply() visits them
    gidx,           \* number of groups already given to extract_sequence
    tmp_window,     \* extract_sequence: PIN -> tmp after the sort and the window
    applied,        \* PIN -> the Series returned by extract_sequence
    raw_data,       \* the frame returned by get_raw_data
    qpc,
    overall,        \* find_negative_samples: diabetic_overall, filled file by file
    nidx,           \* find_negative_samples: files already visited by the running loop
    neg_list        \* <<>> until find_negative_samples returns, then <<list(negative_subjects)>>

cohortVars == <<dd, cc, target_year, pbs_files, claimants, positive, negative,
                metonly, metafter, tmp_sorted, pc>>

scanVars == <<pbs, co_payment, n_jobs, PBS_FILES_DICT, pin_splits, kpos, results,
              collected, ret, failed, writers, dead, spc>>

fdVars == <<pbs_csv, filter_copayments, loaded, fidx, out, fret>>

padVars == <<raw_dd, dd_codes, pad_i>>

\* the variables of the reference list, of timespan_encoding and of get_raw_data
encVars == <<days, enc, epc>>

seqVars == <<mbs_files, exclude_pregnancy, dfs, mbs_df, grouped, gidx, tmp_window,
             applied, raw_data, qpc>>

\* the loops of find_negative_samples, step by step
negVars == <<overall, nidx, neg_list>>

auxVars == <<padVars, encVars, seqVars, negVars>>

vars == <<cohortVars, scanVars, fdVars, auxVars>>

\* what the cohort functions, and what the scan of one file, leave alone
notCohortVars == <<scanVars, fdVars, auxVars>>
notScanVars == <<cohortVars, fdVars, auxVars>>

\* ------------------------------------------------ find_positive_samples
\* (variant) only the year before the target year is scanned
arange_previous_year(a, b) == [i \in 1..(IF b > a THEN 1 ELSE 0) |-> b - i]

\* np.arange(a, b)[::-1]
arange_reversed(a, b) == [i \in 1..(IF b > a THEN b - a ELSE 0) |-> b - i]

\* (variant) the result of filter() is dropped: positive_subjects stays as it was
PositiveLoopKeep(d, c, positive_subjects, years) == positive_subjects

RECURSIVE PositiveLoop(_, _, _, _)
PositiveLoop(d, c, positive_subjects, years) ==
    IF years = <<>> THEN positive_subjects
    ELSE LET curr == (DOMAIN d[Head(years)]) \cap c
         IN PositiveLoop(d, c, {x \in positive_subjects : x \notin curr},
                         Tail(years))

\* '%d%b%Y' texts compared as texts: day digits first, then the month name
MonthAlphabetical == [FEB |-> 1, JAN |-> 2]
TextLess(x, y) ==
    x[1] < y[1] \/ (x[1] = y[1] /\ MonthAlphabetical[x[2]] < MonthAlphabetical[y[2]])

\* (variant) min() taken over the texts, converted afterwards
MinDateText(dates) ==
    to_datetime(CHOOSE x \in {dates[i] : i \in 1..Len(dates)} :
        \A j \in 1..Len(dates) : x = dates[j] \/ TextLess(x, dates[j]))

MinDate(dates) == Min({to_datetime(dates[i]) : i \in 1..Len(dates)})

\* (variant) the patients of the target year are not restricted to cc
find_positive_samples_any(d, c, year) ==
    LET ddy == d[year]
        positive_subjects == PositiveLoop(d, c, DOMAIN ddy, arange_reversed(FirstYear, year))
    IN [k \in positive_subjects |-> MinDate(ddy[k].SPPLY_DT)]

find_positive_samples(d, c, year) ==
    LET ddy == d[year]
        positive_subjects ==
            PositiveLoop(d, c, (DOMAIN ddy) \cap c, arange_reversed(FirstYear, year))
    IN [k \in positive_subjects |-> MinDate(ddy[k].SPPLY_DT)]

\* a text that strptime accepts for '%d%b%Y': its month is a month name
matches_format(x) == x[2] \in DOMAIN MonthNumber

\* the texts find_positive_samples gives to pd.to_datetime: every SPPLY_DT of
\* the year-Y record of every positive subject
PositiveDates(d, c, year) ==
    LET ddy == d[year]
        positive_subjects ==
            PositiveLoop(d, c, (DOMAIN ddy) \cap c, arange_reversed(FirstYear, year))
    IN UNION {{ddy[k].SPPLY_DT[i] : i \in 1..Len(ddy[k].SPPLY_DT)} : k \in positive_subjects}

\* ------------------------------------------------ find_negative_samples
\* (variant) only the first file's diabetics are accumulated
DiabeticFirstFile(files, d) ==
    IF files = <<>> THEN {} ELSE DOMAIN d[Head(files)]

RECURSIVE DiabeticOverall(_, _)
DiabeticOverall(files, d) ==
    IF files = <<>> THEN {}
    ELSE (DOMAIN d[Head(files)]) \cup DiabeticOverall(Tail(files), d)

\* (variant) the claimants are not filtered against diabetic_overall
NegativeLoopUnfiltered(files, cl, c, diabetic_overall, negative_subjects) ==
    negative_subjects \cup UNION {cl[files[i]] \cap c : i \in 1..Len(files)}

RECURSIVE NegativeLoop(_, _, _, _, _)
NegativeLoop(files, cl, c, diabetic_overall, negative_subjects) ==
    IF files = <<>> THEN negative_subjects
    ELSE LET curr == cl[Head(files)] \cap c
         IN NegativeLoop(Tail(files), cl, c, diabetic_overall,
                negative_subjects \cup {x \in curr : x \notin diabetic_overall})

find_negative_samples(files, cl, d, c) ==
    LET diabetic_overall == DiabeticOverall(files, d) \cap c
    IN NegativeLoop(files, cl, c, diabetic_overall, {})

\* ---------------------------------------------------------------- Init
\* a one-row record: the other functions read only the keys of these years
KeyRecord == [SPPLY_DT |-> << <<2, "JAN">> >>, ITM_CD |-> <<"MET">>]

\* the inputs in which the key sets of all the years vary: every record is
\* KeyRecord, every file may have claimants without a diabetes row
YearInputs ==
    /\ target_year \in Years
    /\ dd \in [Years -> Mappings({KeyRecord})]
    /\ claimants \in {cl \in [Years -> SUBSET Pids] :
                         \A y \in Years : DOMAIN dd[y] \subseteq cl[y]}

\* the inputs in which the records of the target year vary: the files of the
\* other years have no claimant
RecordInputs ==
    /\ target_year \in Years
    /\ \E m \in Mappings(Records(MaxRec)) :
          /\ dd = [y \in Years |-> IF y = target_year THEN m ELSE <<>>]
          /\ \E cl \in SUBSET Pids :
                /\ DOMAIN m \subseteq cl
                /\ claimants = [y \in Years |-> IF y = target_year THEN cl ELSE {}]

\* no file is being scanned
ScanIdle ==
    /\ pbs = <<>>
    /\ co_payment = <<>>
    /\ n_jobs = 1
    /\ PBS_FILES_DICT = <<>>
    /\ pin_splits = <<>>
    /\ kpos = <<>>
    /\ results = <<>>
    /\ collected = 0
    /\ ret = <<>>
    /\ failed = {}
    /\ writers = <<>>
    /\ dead = {}
    /\ spc = "idle"

\* find_diabetics is not running
DiabeticsIdle ==
    /\ pbs_csv = <<>>
    /\ filter_copayments = FALSE
    /\ loaded = <<>>
    /\ fidx = 0
    /\ out = <<>>
    /\ fret = <<>>

\* the reference list is not being normalised
PadIdle ==
    /\ raw_dd = <<>>
    /\ dd_codes = {}
    /\ pad_i = 0

\* timespan_encoding is not being called
EncIdle ==
    /\ days = 0
    /\ enc = ""
    /\ epc = "idle"

\* get_raw_data is not running
SeqIdle ==
    /\ mbs_files = <<>>
    /\ exclude_pregnancy = FALSE
    /\ dfs = <<>>
    /\ mbs_df = <<>>
    /\ grouped = <<>>
    /\ gidx = 0
    /\ tmp_window = <<>>
    /\ applied = <<>>
    /\ raw_data = <<>>
    /\ qpc = "idle"

\* find_negative_samples is not being followed loop by loop
NegIdle ==
    /\ overall = {}
    /\ nidx = 0
    /\ neg_list = <<>>

AuxIdle == PadIdle /\ EncIdle /\ SeqIdle /\ NegIdle

InitCohort ==
    /\ YearInputs \/ RecordInputs
    /\ cc \in SUBSET Pids
    /\ pbs_files = SortedSeq(Years)
    /\ positive = <<>>
    /\ negative = {}
    /\ metonly = <<>>
    /\ metafter = <<>>
    /\ tmp_sorted = <<>>
    /\ pc = "start"
    /\ ScanIdle
    /\ DiabeticsIdle
    /\ AuxIdle

FindPositive ==
    /\ pc = "start"
    /\ \A x \in PositiveDates(dd, cc, target_year) : matches_format(x)
    /\ positive' = find_positive_samples(dd, cc, target_year)
    /\ pc' = "positive"
    /\ UNCHANGED <<dd, cc, target_year, pbs_files, claimants, negative,
                   metonly, metafter, tmp_sorted>>
    /\ UNCHANGED notCohortVars

FindNegative ==
    /\ pc = "positive"
    /\ negative' = find_negative_samples(pbs_files, claimants, dd, cc)
    /\ pc' = "negative"
    /\ UNCHANGED <<dd, cc, target_year, pbs_files, claimants, positive,
                   metonly, metafter, tmp_sorted>>
    /\ UNCHANGED notCohortVars

\* ------------------------------------------------ find_metonly / find_metafter
\* pos_id.index: the keys of the positive cohort
index(pos_id) == SortedSeq(DOMAIN pos_id)

\* the rows appended to df for one patient: zip(ITM_CD, SPPLY_DT)
PatientRows(ddy, idx) ==
    [i \in 1..ZipLen(ddy[idx].ITM_CD, ddy[idx].SPPLY_DT) |->
        [PTNT_ID |-> idx, ITM_CD |-> ddy[idx].ITM_CD[i],
         SPPLY_DT |-> ddy[idx].SPPLY_DT[i]]]

\* df filled row by row over pos_id.index
RECURSIVE BuildDF(_, _)
BuildDF(ddy, idxs) ==
    IF idxs = <<>> THEN <<>>
    ELSE PatientRows(ddy, Head(idxs)) \o BuildDF(ddy, Tail(idxs))

\* (variant) the frame is not restricted to the rows of idx
RowsOfAnyPatient(df, idx) == df

\* df.loc[df['PTNT_ID'] == idx]
RowsOf(df, idx) == SelectSeq(df, LAMBDA r : r.PTNT_ID = idx)

find_metonly(d, pos_id, year) ==
    LET df == BuildDF(d[year], index(pos_id))
        items(idx) == {RowsOf(df, idx)[i].ITM_CD : i \in 1..Len(RowsOf(df, idx))}
        metonly_ids == {df[i].PTNT_ID : i \in {j \in 1..Len(df) :
                            items(df[j].PTNT_ID) \subseteq met_items}}
    IN [idx \in metonly_ids |->
            Min({to_datetime(RowsOf(df, idx)[i].SPPLY_DT) :
                    i \in 1..Len(RowsOf(df, idx))})]

\* df of find_metafter: SPPLY_DT is converted while the frame is filled
BuildParsedDF(ddy, idxs) ==
    LET df == BuildDF(ddy, idxs)
    IN [i \in 1..Len(df) |-> [df[i] EXCEPT !.SPPLY_DT = to_datetime(@)]]

\* tmp.sort_values(by='SPPLY_DT'): kind defaults to 'quicksort', which pandas
\* documents as not stable; every ascending arrangement of tmp is an outcome
sort_values(tmp) ==
    {s \in {[i \in 1..Len(tmp) |-> tmp[p[i]]] : p \in Permutations(1..Len(tmp))} :
        \A i \in 1..(Len(s) - 1) : s[i].SPPLY_DT <= s[i + 1].SPPLY_DT}

\* mask = np.where(map(lambda x: not x, mask))[0]: positions (from 0) of the
\* non-metformin rows, ascending
NonMetPositions(tmp) ==
    SortedSeq({i - 1 : i \in {j \in 1..Len(tmp) : tmp[j].ITM_CD \notin met_items}})

\* (variant) the position of the first non-metformin row is not tested
IsMetAfterAnyOrder(tmp) ==
    Len(SortedSeq({i - 1 : i \in {j \in 1..Len(tmp) : tmp[j].ITM_CD \notin met_items}})) > 0

\* if len(mask) > 0 and not (mask[0] == 0)
IsMetAfter(tmp) ==
    LET mask == NonMetPositions(tmp)
    IN Len(mask) > 0 /\ ~(mask[1] = 0)

metonce(df) == {df[i].PTNT_ID : i \in {j \in 1..Len(df) : df[j].ITM_CD \in met_items}}

\* out of find_metafter, given the outcome of each patient's sort
MetAfterOut(df, sorted) ==
    [idx \in {i \in DOMAIN sorted : IsMetAfter(sorted[i])} |->
        Min({RowsOf(df, idx)[i].SPPLY_DT : i \in 1..Len(RowsOf(df, idx))})]

FindMetonly ==
    /\ pc = "negative"
    /\ metonly' = find_metonly(dd, positive, target_year)
    /\ pc' = "metonly"
    /\ UNCHANGED <<dd, cc, target_year, pbs_files, claimants, positive,
                   negative, metafter, tmp_sorted>>
    /\ UNCHANGED notCohortVars

FindMetafter ==
    /\ pc = "metonly"
    /\ LET df == BuildParsedDF(dd[target_year], index(positive))
       IN \E sorted \in [metonce(df) -> UNION {sort_values(RowsOf(df, i)) : i \in metonce(df)}] :
            /\ \A idx \in metonce(df) : sorted[idx] \in sort_values(RowsOf(df, idx))
            /\ tmp_sorted' = sorted
            /\ metafter' = MetAfterOut(df, sorted)
    /\ pc' = "done"
    /\ UNCHANGED <<dd, cc, target_year, pbs_files, claimants, positive,
                   negative, metonly>>
    /\ UNCHANGED notCohortVars

NextCohort == FindPositive \/ FindNegative \/ FindMetonly \/ FindMetafter

SpecCohort == InitCohort /\ [][NextCohort]_vars

\* ================================================================ scan
\* the columns read by find_diabetics (usecols). Rows with a diabetes code
\* cost 1+0 or 1+1; the rows with another code are dropped when the file is
\* loaded, one per patient is enough
FileRows ==
    [PTNT_ID : Pins, ITM_CD : {"DIA"}, SPPLY_DT : Dates,
     PTNT_CNTRBTN_AMT : {1}, BNFT_AMT : {0, 1}]
    \cup
    [PTNT_ID : Pins, ITM_CD : OtherCodes, SPPLY_DT : {<<2, "JAN">>},
     PTNT_CNTRBTN_AMT : {1}, BNFT_AMT : {1}]

Files == UNION {[1..n -> FileRows] : n \in 0..MaxRows}

\* co_payment: None, or co_payments.loc[year]['GBC']
CoPayments == {<<>>, <<2>>}

\* no cohort function is running
CohortIdle ==
    /\ dd = <<>>
    /\ cc = {}
    /\ target_year = FirstYear
    /\ pbs_files = <<>>
    /\ claimants = <<>>
    /\ positive = <<>>
    /\ negative = {}
    /\ metonly = <<>>
    /\ metafter = <<>>
    /\ tmp_sorted = <<>>
    /\ pc = "idle"

InitScan ==
    /\ pbs \in Files
    /\ co_payment \in CoPayments
    /\ n_jobs \in 1..MaxJobs
    /\ PBS_FILES_DICT = <<>>
    /\ pin_splits = <<>>
    /\ kpos = <<>>
    /\ results = <<>>
    /\ collected = 0
    /\ ret = <<>>
    /\ failed = {}
    /\ writers = <<>>
    /\ dead = {}
    /\ spc = "load"
    /\ CohortIdle
    /\ DiabeticsIdle
    /\ AuxIdle

\* find_diabetics: ___PBS_FILES_DICT__[pbs] = pbs_dd[pbs_dd['ITM_CD'].isin(dd)]
LoadFile ==
    /\ spc = "load"
    /\ PBS_FILES_DICT' = SelectSeq(pbs, LAMBDA r : r.ITM_CD \in DiabetesCodes)
    /\ spc' = "submit"
    /\ UNCHANGED <<pbs, co_payment, n_jobs, pin_splits, kpos, results, collected, ret,
                   failed, writers, dead>>
    /\ UNCHANGED notScanVars

\* (variant) the PTNT_ID column as it is, without np.unique
PtntIdColumn(table) == [i \in 1..Len(table) |-> table[i].PTNT_ID]

\* np.unique(table['PTNT_ID'].values.ravel())
unique(table) == SortedSeq({table[i].PTNT_ID : i \in 1..Len(table)})

\* (variant) every section has Ntotal // n elements, the rest is dropped
SectionSizeTruncated(Ntotal, n, i) == Ntotal \div n

\* np.array_split: section_sizes = extras * [Neach + 1] + (n - extras) * [Neach]
SectionSize(Ntotal, n, i) ==
    IF i <= Ntotal % n THEN (Ntotal \div n) + 1 ELSE Ntotal \div n

\* div_points = cumsum([0] + section_sizes)
RECURSIVE DivPoint(_, _, _)
DivPoint(Ntotal, n, i) ==
    IF i = 0 THEN 0 ELSE DivPoint(Ntotal, n, i - 1) + SectionSize(Ntotal, n, i)

\* (variant) every section but the first starts one element early, on the last
\* element of the section before it
array_split_overlap(ary, n) ==
    [i \in 1..n |->
        LET st == DivPoint(Len(ary), n, i - 1)
        IN SubSeq(ary, IF st = 0 THEN 1 ELSE st, DivPoint(Len(ary), n, i))]

\* sub_arys[i] = ary[div_points[i] : div_points[i + 1]]
array_split(ary, n) ==
    [i \in 1..n |->
        SubSeq(ary, DivPoint(Len(ary), n, i - 1) + 1, DivPoint(Len(ary), n, i))]

\* find_diabetes_drugs_users up to the submission of the jobs
Submit ==
    /\ spc = "submit"
    /\ pin_splits' = array_split(unique(PBS_FILES_DICT), n_jobs)
    /\ kpos' = [i \in 1..Len(pin_splits') |-> 0]
    /\ results' = <<>>
    /\ collected' = 0
    /\ failed' = {}
    /\ writers' = <<>>
    /\ dead' = {}
    /\ spc' = "collect"
    /\ UNCHANGED <<pbs, co_payment, n_jobs, PBS_FILES_DICT, ret>>
    /\ UNCHANGED notScanVars

\* (variant) rows costing exactly the threshold are dropped too
AboveCoPayment(r, co) ==
    co = <<>> \/ r.PTNT_CNTRBTN_AMT + r.BNFT_AMT > co[1]

\* chunk['PTNT_CNTRBTN_AMT'] + chunk['BNFT_AMT'] >= co_payment, if not None
PassesCoPayment(r, co) ==
    co = <<>> \/ r.PTNT_CNTRBTN_AMT + r.BNFT_AMT >= co[1]

\* the chunk of one pin after the co-payment filter
Chunk(table, pin, co) ==
    SelectSeq(SelectSeq(table, LAMBDA r : r.PTNT_ID = pin),
              LAMBDA r : PassesCoPayment(r, co))

\* results[pin] = {'SPPLY_DT': [...], 'ITM_CD': [...]}
Put(res, pin, chunk) ==
    [p \in (DOMAIN res) \cup {pin} |->
        IF p = pin
        THEN [SPPLY_DT |-> [i \in 1..Len(chunk) |-> chunk[i].SPPLY_DT],
              ITM_CD |-> [i \in 1..Len(chunk) |-> chunk[i].ITM_CD]]
        ELSE res[p]]

\* one iteration of the loop of worker()
WorkerBody(table, pin, co, res) ==
    LET chunk == Chunk(table, pin, co)
    IN IF Len(chunk) > 0 THEN Put(res, pin, chunk) ELSE res

\* the jobs that have executed results[pin] = ..., the job i included when
\* its chunk of the pin is not empty
Wrote(table, pin, co, w, i) ==
    IF Len(Chunk(table, pin, co)) > 0
    THEN [p \in (DOMAIN w) \cup {pin} |->
             IF p = pin
             THEN (IF pin \in DOMAIN w THEN w[pin] ELSE <<>>) \o <<i>>
             ELSE w[p]]
    ELSE w

\* job i processes the next pin of its split
WorkerStep(i) ==
    /\ spc = "collect"
    /\ i \notin failed \cup dead
    /\ kpos[i] < Len(pin_splits[i])
    /\ results' = WorkerBody(PBS_FILES_DICT, pin_splits[i][kpos[i] + 1], co_payment, results)
    /\ writers' = Wrote(PBS_FILES_DICT, pin_splits[i][kpos[i] + 1], co_payment, writers, i)
    /\ kpos' = [kpos EXCEPT ![i] = @ + 1]
    /\ UNCHANGED <<pbs, co_payment, n_jobs, PBS_FILES_DICT, pin_splits, collected,
                   ret, failed, dead, spc>>
    /\ UNCHANGED notScanVars

\* the jobs run in the processes of the pool, in any interleaving
Worker == \E i \in DOMAIN kpos : WorkerStep(i)

\* (variant) the job is over, with a value or with an exception
WorkerStopped(i) == kpos[i] = Len(pin_splits[i]) \/ i \in failed

\* the job's worker has returned: its AsyncResult holds a value
WorkerDone(i) == kpos[i] = Len(pin_splits[i]) /\ i \notin failed

\* (variant) get() returns at once, whether the job is over or not
CollectNoWait ==
    /\ spc = "collect"
    /\ collected < Len(pin_splits)
    /\ collected + 1 \notin failed
    /\ collected' = collected + 1
    /\ UNCHANGED <<pbs, co_payment, n_jobs, PBS_FILES_DICT, pin_splits, kpos, results,
                   ret, failed, writers, dead, spc>>
    /\ UNCHANGED notScanVars

\* jobs = [p.get() for p in jobs]: get() of the next job returns
Collect ==
    /\ spc = "collect"
    /\ collected < Len(pin_splits)
    /\ WorkerDone(collected + 1)
    /\ collected' = collected + 1
    /\ UNCHANGED <<pbs, co_payment, n_jobs, PBS_FILES_DICT, pin_splits, kpos, results,
                   ret, failed, writers, dead, spc>>
    /\ UNCHANGED notScanVars

\* return dict(results)
Return ==
    /\ spc = "collect"
    /\ collected = Len(pin_splits)
    /\ ret' = results
    /\ spc' = "done"
    /\ UNCHANGED <<pbs, co_payment, n_jobs, PBS_FILES_DICT, pin_splits, kpos, results,
                   collected, failed, writers, dead>>
    /\ UNCHANGED notScanVars

NextScan ==
    \/ LoadFile
    \/ Submit
    \/ Worker
    \/ Collect
    \/ Return

SpecScan == InitScan /\ [][NextScan]_vars

\* ================================================================ find_diabetics
\* rows of one yearly file given to find_diabetics
MaxFileRows == 2

\* the years of the files given to find_diabetics
ScanYears == {FirstYear, FirstYear + 1}

\* rows with a diabetes code cost 1+0 or 1+1; one row with another code
SmallRows ==
    [PTNT_ID : Pids, ITM_CD : {"DIA"}, SPPLY_DT : {<<2, "JAN">>},
     PTNT_CNTRBTN_AMT : {1}, BNFT_AMT : {0, 1}]
    \cup
    [PTNT_ID : {1}, ITM_CD : OtherCodes, SPPLY_DT : {<<2, "JAN">>},
     PTNT_CNTRBTN_AMT : {1}, BNFT_AMT : {1}]

SmallFiles == UNION {[1..n -> SmallRows] : n \in 0..MaxFileRows}

\* co-payments_08-18.csv, column GBC, by year
co_payments == [y \in ScanYears |-> 2]

\* sorted(pbs_files)
sorted_pbs_files == SortedSeq(DOMAIN pbs_csv)

InitDiabetics ==
    /\ pbs_csv \in [ScanYears -> SmallFiles]
    /\ filter_copayments \in BOOLEAN
    /\ n_jobs \in 1..MaxJobs
    /\ loaded = <<>>
    /\ fidx = 0
    /\ out = <<>>
    /\ fret = <<>>
    /\ pbs = <<>>
    /\ co_payment = <<>>
    /\ PBS_FILES_DICT = <<>>
    /\ pin_splits = <<>>
    /\ kpos = <<>>
    /\ results = <<>>
    /\ collected = 0
    /\ ret = <<>>
    /\ failed = {}
    /\ writers = <<>>
    /\ dead = {}
    /\ spc = "fd_load"
    /\ CohortIdle
    /\ AuxIdle

\* find_diabetics: every file is read and filtered before the first scan
LoadFiles ==
    /\ spc = "fd_load"
    /\ loaded' = [y \in DOMAIN pbs_csv |->
                     SelectSeq(pbs_csv[y], LAMBDA r : r.ITM_CD \in DiabetesCodes)]
    /\ out' = <<>>
    /\ fidx' = 0
    /\ spc' = "fd_loop"
    /\ UNCHANGED <<pbs_csv, filter_copayments, fret>>
    /\ UNCHANGED <<pbs, co_payment, n_jobs, PBS_FILES_DICT, pin_splits, kpos, results,
                   collected, ret, failed, writers, dead>>
    /\ UNCHANGED <<cohortVars, auxVars>>

\* the loop over sorted(pbs_files): the threshold of the year is selected and
\* find_diabetes_drugs_users is called
CallScan ==
    /\ spc = "fd_loop"
    /\ fidx < Len(sorted_pbs_files)
    /\ LET year == sorted_pbs_files[fidx + 1]
       IN /\ pbs' = pbs_csv[year]
          /\ PBS_FILES_DICT' = loaded[year]
          /\ co_payment' = IF filter_copayments THEN <<co_payments[year]>> ELSE <<>>
    /\ ret' = <<>>
    /\ spc' = "submit"
    /\ UNCHANGED <<n_jobs, pin_splits, kpos, results, collected, failed, writers, dead>>
    /\ UNCHANGED notScanVars

\* the worker of job i raises while it processes its next pin
WorkerFailStep(i) ==
    /\ spc = "collect"
    /\ i \notin failed \cup dead
    /\ kpos[i] < Len(pin_splits[i])
    /\ failed' = failed \cup {i}
    /\ UNCHANGED <<pbs, co_payment, n_jobs, PBS_FILES_DICT, pin_splits, kpos, results,
                   collected, ret, writers, dead, spc>>
    /\ UNCHANGED notScanVars

WorkerFail == \E i \in DOMAIN kpos : WorkerFailStep(i)

\* jobs = [p.get() for p in jobs]: get() of the next job raises the exception
\* of its worker; neither function catches it
Raise ==
    /\ spc = "collect"
    /\ collected < Len(pin_splits)
    /\ collected + 1 \in failed
    /\ spc' = "raised"
    /\ UNCHANGED <<pbs, co_payment, n_jobs, PBS_FILES_DICT, pin_splits, kpos, results,
                   collected, ret, failed, writers, dead>>
    /\ UNCHANGED notScanVars

\* out[_pbs] = find_diabetes_drugs_users(...)
StoreOut ==
    /\ spc = "done"
    /\ fidx < Len(sorted_pbs_files)
    /\ LET year == sorted_pbs_files[fidx + 1]
       IN out' = [y \in (DOMAIN out) \cup {year} |-> IF y = year THEN ret ELSE out[y]]
    /\ fidx' = fidx + 1
    /\ spc' = "fd_loop"
    /\ UNCHANGED <<pbs_csv, filter_copayments, loaded, fret>>
    /\ UNCHANGED <<pbs, co_payment, n_jobs, PBS_FILES_DICT, pin_splits, kpos, results,
                   collected, ret, failed, writers, dead>>
    /\ UNCHANGED <<cohortVars, auxVars>>

\* return out
ReturnOut ==
    /\ spc = "fd_loop"
    /\ fidx = Len(sorted_pbs_files)
    /\ fret' = <<out>>
    /\ spc' = "fd_done"
    /\ UNCHANGED <<pbs_csv, filter_copayments, loaded, fidx, out>>
    /\ UNCHANGED <<pbs, co_payment, n_jobs, PBS_FILES_DICT, pin_splits, kpos, results,
                   collected, ret, failed, writers, dead>>
    /\ UNCHANGED <<cohortVars, auxVars>>

NextDiabetics ==
    \/ LoadFiles
    \/ CallScan
    \/ Submit
    \/ Worker
    \/ WorkerFail
    \/ Collect
    \/ Raise
    \/ Return
    \/ StoreOut
    \/ ReturnOut

SpecDiabetics == InitDiabetics /\ [][NextDiabetics]_vars

\* ================================================================ scan, scheduled
\* The scan of one file with the ways a job can end: its worker returns,
\* raises, or the process running it dies. The pool runs every job it has
\* been given and the coordinator runs whenever it can: weak fairness on
\* the steps of the program, none on the failures.
InitScanFair ==
    /\ pbs \in SmallFiles
    /\ co_payment \in {<<>>, <<co_payments[FirstYear]>>}
    /\ n_jobs \in 1..MaxJobs
    /\ PBS_FILES_DICT = <<>>
    /\ pin_splits = <<>>
    /\ kpos = <<>>
    /\ results = <<>>
    /\ collected = 0
    /\ ret = <<>>
    /\ failed = {}
    /\ writers = <<>>
    /\ dead = {}
    /\ spc = "load"
    /\ CohortIdle
    /\ DiabeticsIdle
    /\ AuxIdle

\* the process that runs job i dies (killed, out of memory) while it processes
\* its next pin: the pool starts another process, the job is not run again
\* and its AsyncResult is never set
WorkerDieStep(i) ==
    /\ spc = "collect"
    /\ i \notin failed \cup dead
    /\ kpos[i] < Len(pin_splits[i])
    /\ dead' = dead \cup {i}
    /\ UNCHANGED <<pbs, co_payment, n_jobs, PBS_FILES_DICT, pin_splits, kpos, results,
                   collected, ret, failed, writers, spc>>
    /\ UNCHANGED notScanVars

WorkerDie == \E i \in DOMAIN kpos : WorkerDieStep(i)

NextScanFair ==
    \/ LoadFile
    \/ Submit
    \/ Worker
    \/ WorkerFail
    \/ WorkerDie
    \/ Collect
    \/ Raise
    \/ Return

SpecScanFair ==
    /\ InitScanFair
    /\ [][NextScanFair]_vars
    /\ WF_vars(LoadFile)
    /\ WF_vars(Submit)
    /\ WF_vars(Worker)
    /\ WF_vars(Collect)
    /\ WF_vars(Raise)
    /\ WF_vars(Return)


\* ================================================================ 6-digit notation
\* the length find_diabetics compares with: len(item) < 6
CodeWidth == 6

\* codes of the reference file
MaxRef == 2

\* an item code is a text: the sequence of its characters
CodeChars == {"1", "X"}
Codes == UNION {[1..n -> CodeChars] : n \in 1..CodeWidth}

\* str(0)+item
prepend_zero(item) == <<"0">> \o item

\* the body of the loop over _dd.values.ravel()
fix_notation(item) == IF Len(item) < CodeWidth THEN prepend_zero(item) ELSE item

InitPad ==
    /\ raw_dd \in UNION {[1..n -> Codes] : n \in 1..MaxRef}
    /\ dd_codes = {}
    /\ pad_i = 0
    /\ CohortIdle
    /\ ScanIdle
    /\ DiabeticsIdle
    /\ EncIdle
    /\ SeqIdle
    /\ NegIdle

\* one iteration: dd.add(...)
AddItem ==
    /\ pad_i < Len(raw_dd)
    /\ dd_codes' = dd_codes \cup {fix_notation(raw_dd[pad_i + 1])}
    /\ pad_i' = pad_i + 1
    /\ UNCHANGED raw_dd
    /\ UNCHANGED <<cohortVars, scanVars, fdVars, encVars, seqVars, negVars>>

NextPad == AddItem

SpecPad == InitPad /\ [][NextPad]_vars

\* ================================================================ timespan_encoding
\* the day counts given to timespan_encoding: -MaxNegDays..MaxDays
MaxDays == 365
MaxNegDays == 5

\* str() of an integer: its decimal text
Digit == <<"0", "1", "2", "3", "4", "5", "6", "7", "8", "9">>
RECURSIVE str(_)
str(n) ==
    IF n < 0 THEN "-" \o str(0 - n)
    ELSE IF n < 10 THEN Digit[n + 1]
    ELSE str(n \div 10) \o Digit[(n % 10) + 1]

\* raise ValueError('Unsupported negative timespans')
ValueError == "ValueError"

\* (variant) the upper limit of every interval belongs to the next one
timespan_bucket_open(d) ==
    IF d >= 0 /\ d < 14 THEN 0
    ELSE IF d >= 14 /\ d < 30 THEN 1
    ELSE IF d >= 30 /\ d < 90 THEN 2
    ELSE IF d >= 90 /\ d < 360 THEN 3
    ELSE 4

\* the elif chain over a non-negative day count
timespan_bucket(d) ==
    IF d >= 0 /\ d <= 14 THEN 0
    ELSE IF d > 14 /\ d <= 30 THEN 1
    ELSE IF d > 30 /\ d <= 90 THEN 2
    ELSE IF d > 90 /\ d <= 360 THEN 3
    ELSE 4

timespan_encoding(d) ==
    IF d < 0 THEN ValueError ELSE str(timespan_bucket(d))

InitEnc ==
    /\ days \in (0 - MaxNegDays)..MaxDays
    /\ enc = ""
    /\ epc = "call"
    /\ CohortIdle
    /\ ScanIdle
    /\ DiabeticsIdle
    /\ PadIdle
    /\ SeqIdle
    /\ NegIdle

Encode ==
    /\ epc = "call"
    /\ enc' = timespan_encoding(days)
    /\ epc' = "done"
    /\ UNCHANGED days
    /\ UNCHANGED <<cohortVars, scanVars, fdVars, padVars, seqVars, negVars>>

NextEnc == Encode

SpecEnc == InitEnc /\ [][NextEnc]_vars

\* ================================================================ get_raw_data
\* threshold for the minimum sequence length
MIN_SEQ_LENGTH == 10

\* rows of the varied patient in the MBS files
MaxEvents == 13

\* ITEM values: the items of pregnancy_items.csv, two other service items
pregnancy_items == {16}
ServiceItem == 23
OtherItem == 66

\* the PINs of the source file, and a PIN that is not in it
CohortPins == {1, 2}
OtherPin == 3

\* DOS texts in the format '%d%b%Y': <<day, month, year>>; the k-th date of an
\* ascending pool, one day apart up to 11JAN, then 01FEB, 02FEB, ...
PoolDate(k) == IF k <= 11 THEN <<k, "JAN", 2010>> ELSE <<k - 11, "FEB", 2010>>

\* pd.to_datetime(DOS, format='%d%b%Y') as an ordinal date, year * 1000 + day
\* of the year: dates of one year differ by their number of days
to_datetime_DOS(x) == x[3] * 1000 + to_datetime(x)

\* the DOS of row i of a patient with n rows: the file is in date order, in
\* reverse date order, or in date order with row 2 on the date of row 1
Layouts == {"asc", "desc", "tie"}
RowDate(n, layout, i) ==
    CASE layout = "asc" -> PoolDate(i)
      [] layout = "desc" -> PoolDate(n + 1 - i)
      [] layout = "tie" -> IF i = 2 THEN PoolDate(1) ELSE PoolDate(i)

\* np.nan, and a cell holding a value
NaN == <<>>
Cell(v) == <<v>>

\* row j is marked: another item, a pregnancy item, a PIN outside the cohort,
\* or an empty PINSTATE
Marks == {"item", "pregnancy", "pin", "state"}
MbsRow(n, layout, i, j, mark) ==
    [PIN |-> IF i = j /\ mark = "pin" THEN OtherPin ELSE 1,
     ITEM |-> IF i # j \/ mark \in {"pin", "state"} THEN ServiceItem
              ELSE IF mark = "item" THEN OtherItem
              ELSE CHOOSE x \in pregnancy_items : TRUE,
     DOS |-> RowDate(n, layout, i),
     PINSTATE |-> IF i = j /\ mark = "state" THEN NaN ELSE Cell(1)]

\* a second file: a patient with MIN_SEQ_LENGTH + 1 rows in date order
SecondFile ==
    [i \in 1..(MIN_SEQ_LENGTH + 1) |->
        [PIN |-> 2, ITEM |-> ServiceItem, DOS |-> PoolDate(i),
         PINSTATE |-> Cell(2)]]

\* START_DATE and END_DATE of the varied patient, whose SEX is 'F' or empty
\* in the lookout table
StartDates == {to_datetime_DOS(<<1, "JAN", 2010>>), to_datetime_DOS(<<3, "JAN", 2010>>)}
EndDates == {to_datetime_DOS(<<1, "FEB", 2010>>), to_datetime_DOS(<<28, "FEB", 2010>>)}

InitSeq ==
    /\ \E n \in 0..MaxEvents, layout \in Layouts, j \in 0..MaxEvents, mark \in Marks,
          second \in BOOLEAN :
          /\ j <= n
          /\ j = 0 => mark = "item"
          /\ mbs_files = <<[i \in 1..n |-> MbsRow(n, layout, i, j, mark)]>>
                         \o (IF second THEN <<SecondFile>> ELSE <<>>)
    /\ exclude_pregnancy \in BOOLEAN
    /\ \E start \in StartDates, end \in EndDates, sex \in {Cell("F"), NaN} :
          dfs = [p \in CohortPins |->
                    [START_DATE |-> IF p = 1 THEN start
                                    ELSE to_datetime_DOS(<<1, "JAN", 2010>>),
                     END_DATE |-> IF p = 1 THEN end
                                  ELSE to_datetime_DOS(<<28, "FEB", 2010>>),
                     SEX |-> IF p = 1 THEN sex ELSE Cell("M"), YOB |-> 1950]]
    /\ mbs_df = <<>>
    /\ grouped = <<>>
    /\ gidx = 0
    /\ tmp_window = <<>>
    /\ applied = <<>>
    /\ raw_data = <<>>
    /\ qpc = "load"
    /\ CohortIdle
    /\ ScanIdle
    /\ DiabeticsIdle
    /\ PadIdle
    /\ EncIdle
    /\ NegIdle

\* the body of the loop over mbs_files: the rows of one file that are kept
keep_rows(file, excl, pins) ==
    SelectSeq(SelectSeq(file, LAMBDA r : ~(excl /\ r.ITEM \in pregnancy_items)),
              LAMBDA r : r.PIN \in pins)

\* mbs_df = pd.concat((mbs_df, dd)), file after file
RECURSIVE concat_files(_, _, _)
concat_files(fs, excl, pins) ==
    IF fs = <<>> THEN <<>>
    ELSE keep_rows(Head(fs), excl, pins) \o concat_files(Tail(fs), excl, pins)

\* Step 2: the files are loaded, DOS is converted
LoadMbs ==
    /\ qpc = "load"
    /\ LET rows == concat_files(mbs_files, exclude_pregnancy, DOMAIN dfs)
       IN mbs_df' = [i \in 1..Len(rows) |->
                        [rows[i] EXCEPT !.DOS = to_datetime_DOS(@)]]
    /\ qpc' = "group"
    /\ UNCHANGED <<mbs_files, exclude_pregnancy, dfs, grouped, gidx, tmp_window,
                   applied, raw_data>>
    /\ UNCHANGED <<cohortVars, scanVars, fdVars, padVars, encVars, negVars>>

\* the rows of one PIN, in the order of mbs_df
group_of(table, pin) == SelectSeq(table, LAMBDA r : r.PIN = pin)

\* mbs_df.groupby('PIN').filter(lambda x: len(x) > 1).groupby('PIN')
GroupBy ==
    /\ qpc = "group"
    /\ grouped' = SortedSeq({pin \in {mbs_df[i].PIN : i \in 1..Len(mbs_df)} :
                                Len(group_of(mbs_df, pin)) > 1})
    /\ gidx' = 0
    /\ qpc' = "apply"
    /\ UNCHANGED <<mbs_files, exclude_pregnancy, dfs, mbs_df, tmp_window, applied,
                   raw_data>>
    /\ UNCHANGED <<cohortVars, scanVars, fdVars, padVars, encVars, negVars>>

\* (variant) the group is left in the order of the files
sort_values_none(t) == {t}

\* group.sort_values(by='DOS'), kind 'quicksort': every arrangement of the
\* group that is ascending in DOS
RECURSIVE sort_values_DOS(_)
sort_values_DOS(t) ==
    IF t = <<>> THEN {<<>>}
    ELSE LET m == Min({t[i].DOS : i \in 1..Len(t)})
             without(i) == SubSeq(t, 1, i - 1) \o SubSeq(t, i + 1, Len(t))
         IN UNION {{<<t[i]>> \o rest : rest \in sort_values_DOS(without(i))} :
                      i \in {k \in 1..Len(t) : t[k].DOS = m}}

\* (variant) the event on the end date is left out
in_window_open(r, start_date, end_date) == r.DOS >= start_date /\ r.DOS < end_date

\* np.logical_and(tmp['DOS'] >= start_date, tmp['DOS'] <= end_date)
in_window(r, start_date, end_date) == r.DOS >= start_date /\ r.DOS <= end_date

\* flatten() of mbspbs10pc.concessionals_utils: the list of the elements of
\* the lists of a list
RECURSIVE flatten(_)
flatten(ll) == IF ll = <<>> THEN <<>> ELSE Head(ll) \o flatten(Tail(ll))

\* np.mean of a list of equal years
mean(ys) == ys[1]

\* the Series extract_sequence returns for tmp, the sorted rows of the window;
\* ' '.join(map(str, seq)) is kept as the list of its tokens, the list that
\* split(' ') gives back in load_data_labels
extract_row(tmp, pin) ==
    IF Len(tmp) > MIN_SEQ_LENGTH
    THEN LET timedeltas == [i \in 1..(Len(tmp) - 1) |-> tmp[i + 1].DOS - tmp[i].DOS]
             items == [i \in 1..Len(tmp) |-> tmp[i].ITEM]
             pairs == [i \in 1..ZipLen(items, timedeltas) |-> <<items[i], timedeltas[i]>>]
             tokens == Append(flatten(pairs), items[Len(items)])
         IN [seq |-> [i \in 1..Len(tokens) |-> str(tokens[i])],
             avg_age |-> Cell(mean([i \in 1..Len(tmp) |-> tmp[i].DOS \div 1000])
                              - dfs[pin].YOB),
             last_pinstate |-> tmp[Len(tmp)].PINSTATE,
             sex |-> dfs[pin].SEX]
    ELSE [seq |-> NaN, avg_age |-> NaN, last_pinstate |-> NaN, sex |-> NaN]

\* d with key pin set to v
SetItem(d, pin, v) == [p \in (DOMAIN d) \cup {pin} |-> IF p = pin THEN v ELSE d[p]]

\* grouped.apply(extract_sequence): the next group is given to extract_sequence
ExtractSequence ==
    /\ qpc = "apply"
    /\ gidx < Len(grouped)
    /\ LET pin == grouped[gidx + 1]
       IN \E sorted \in sort_values_DOS(group_of(mbs_df, pin)) :
             LET tmp == SelectSeq(sorted, LAMBDA r :
                            in_window(r, dfs[pin].START_DATE, dfs[pin].END_DATE))
             IN /\ tmp_window' = SetItem(tmp_window, pin, tmp)
                /\ applied' = SetItem(applied, pin, extract_row(tmp, pin))
    /\ gidx' = gidx + 1
    /\ UNCHANGED <<mbs_files, exclude_pregnancy, dfs, mbs_df, grouped, raw_data, qpc>>
    /\ UNCHANGED <<cohortVars, scanVars, fdVars, padVars, encVars, negVars>>

\* a row with np.nan in any column
has_nan(row) ==
    row.seq = NaN \/ row.avg_age = NaN \/ row.last_pinstate = NaN \/ row.sex = NaN

\* return grouped.apply(extract_sequence).dropna()
Dropna ==
    /\ qpc = "apply"
    /\ gidx = Len(grouped)
    /\ raw_data' = [pin \in {p \in DOMAIN applied : ~has_nan(applied[p])} |-> applied[pin]]
    /\ qpc' = "done"
    /\ UNCHANGED <<mbs_files, exclude_pregnancy, dfs, mbs_df, grouped, gidx, tmp_window,
                   applied>>
    /\ UNCHANGED <<cohortVars, scanVars, fdVars, padVars, encVars, negVars>>

NextSeq == LoadMbs \/ GroupBy \/ ExtractSequence \/ Dropna

SpecSeq == InitSeq /\ [][NextSeq]_vars

\* ================================================================ pipeline
\* find_diabetics over the yearly files, then the cohort functions over its
\* output. A SPPLY_DT text may be in another format (2012-01-02)
MalformedDate == <<2, "01">>

PipeRows ==
    [PTNT_ID : Pids, ITM_CD : met_items, SPPLY_DT : {<<2, "JAN">>, MalformedDate},
     PTNT_CNTRBTN_AMT : {1}, BNFT_AMT : {0, 1}]
    \cup
    [PTNT_ID : {1}, ITM_CD : OtherCodes, SPPLY_DT : {<<2, "JAN">>},
     PTNT_CNTRBTN_AMT : {1}, BNFT_AMT : {1}]

PipeFiles == UNION {[1..n -> PipeRows] : n \in 0..MaxFileRows}

InitPipeline ==
    /\ pbs_csv \in [ScanYears -> PipeFiles]
    /\ filter_copayments \in BOOLEAN
    /\ n_jobs \in 1..MaxJobs
    /\ loaded = <<>>
    /\ fidx = 0
    /\ out = <<>>
    /\ fret = <<>>
    /\ pbs = <<>>
    /\ co_payment = <<>>
    /\ PBS_FILES_DICT = <<>>
    /\ pin_splits = <<>>
    /\ kpos = <<>>
    /\ results = <<>>
    /\ collected = 0
    /\ ret = <<>>
    /\ failed = {}
    /\ writers = <<>>
    /\ dead = {}
    /\ spc = "fd_load"
    /\ CohortIdle
    /\ AuxIdle

\* pd.read_csv(pbs, header=0, usecols=['PTNT_ID']): the claimants of a file
PtntIds(file) == {file[i].PTNT_ID : i \in 1..Len(file)}

\* the cohort functions are called with the output of find_diabetics as dd,
\* for a concession set and a target year
CallCohort ==
    /\ spc = "fd_done"
    /\ pc = "idle"
    /\ dd' = fret[1]
    /\ cc' \in SUBSET Pids
    /\ target_year' \in ScanYears
    /\ pbs_files' = sorted_pbs_files
    /\ claimants' = [y \in DOMAIN pbs_csv |-> PtntIds(pbs_csv[y])]
    /\ pc' = "start"
    /\ UNCHANGED <<positive, negative, metonly, metafter, tmp_sorted>>
    /\ UNCHANGED notCohortVars

\* find_positive_samples: pd.to_datetime(x, format='%d%b%Y') raises ValueError
\* on a text in another format
PositiveValueError ==
    /\ pc = "start"
    /\ \E x \in PositiveDates(dd, cc, target_year) : ~matches_format(x)
    /\ pc' = "raised"
    /\ UNCHANGED <<dd, cc, target_year, pbs_files, claimants, positive, negative,
                   metonly, metafter, tmp_sorted>>
    /\ UNCHANGED notCohortVars

NextPipeline ==
    \/ LoadFiles
    \/ CallScan
    \/ Submit
    \/ Worker
    \/ Collect
    \/ Return
    \/ StoreOut
    \/ ReturnOut
    \/ CallCohort
    \/ FindPositive
    \/ PositiveValueError
    \/ FindNegative
    \/ FindMetonly
    \/ FindMetafter

SpecPipeline == InitPipeline /\ [][NextPipeline]_vars

\* ================================================================ find_negative_samples, loop by loop
\* the orders in which the caller may list the elements of S
Orders(S) ==
    {q \in [1..Cardinality(S) -> S] : \A i, j \in DOMAIN q : q[i] = q[j] => i = j}

\* the files in any order; every record is KeyRecord; the claimants of a file
\* are the patients with a diabetes row in it, or all the patients
InitNegative ==
    /\ target_year = FirstYear
    /\ dd \in [Years -> Mappings({KeyRecord})]
    /\ claimants \in {cl \in [Years -> SUBSET Pids] :
                         \A y \in Years : cl[y] \in {DOMAIN dd[y], Pids}}
    /\ cc \in SUBSET Pids
    /\ pbs_files \in Orders(Years)
    /\ positive = <<>>
    /\ negative = {}
    /\ metonly = <<>>
    /\ metafter = <<>>
    /\ tmp_sorted = <<>>
    /\ pc = "neg_overall"
    /\ overall = {}
    /\ nidx = 0
    /\ neg_list = <<>>
    /\ ScanIdle
    /\ DiabeticsIdle
    /\ PadIdle
    /\ EncIdle
    /\ SeqIdle

\* (variant) diabetic_overall = set(dd[...]): the set is replaced
accumulate_replace(acc, d, file) == DOMAIN d[file]

\* diabetic_overall |= set(dd[os.path.split(pbs)[-1]])
accumulate(acc, d, file) == acc \cup DOMAIN d[file]

\* one iteration of the first loop
AccumulateStep ==
    /\ pc = "neg_overall"
    /\ nidx < Len(pbs_files)
    /\ overall' = accumulate(overall, dd, pbs_files[nidx + 1])
    /\ nidx' = nidx + 1
    /\ UNCHANGED neg_list
    /\ UNCHANGED cohortVars
    /\ UNCHANGED <<scanVars, fdVars, padVars, encVars, seqVars>>

\* diabetic_overall = diabetic_overall.intersection(cc)
Intersect ==
    /\ pc = "neg_overall"
    /\ nidx = Len(pbs_files)
    /\ overall' = overall \cap cc
    /\ nidx' = 0
    /\ pc' = "neg_scan"
    /\ UNCHANGED neg_list
    /\ UNCHANGED <<dd, cc, target_year, pbs_files, claimants, positive, negative,
                   metonly, metafter, tmp_sorted>>
    /\ UNCHANGED <<scanVars, fdVars, padVars, encVars, seqVars>>

\* (variant) negative_subjects = set(filter(...)): the set is replaced
scan_file_replace(neg, curr_ids, c, diab) ==
    {x \in curr_ids \cap c : x \notin diab}

\* curr = curr.intersection(cc);
\* negative_subjects |= set(filter(lambda x: x not in diabetic_overall, curr))
scan_file(neg, curr_ids, c, diab) ==
    neg \cup {x \in curr_ids \cap c : x \notin diab}

\* one iteration of the second loop
ScanStep ==
    /\ pc = "neg_scan"
    /\ nidx < Len(pbs_files)
    /\ negative' = scan_file(negative, claimants[pbs_files[nidx + 1]], cc, overall)
    /\ nidx' = nidx + 1
    /\ UNCHANGED <<overall, neg_list>>
    /\ UNCHANGED <<dd, cc, target_year, pbs_files, claimants, positive,
                   metonly, metafter, tmp_sorted, pc>>
    /\ UNCHANGED <<scanVars, fdVars, padVars, encVars, seqVars>>

\* return list(negative_subjects): the elements of the set, in some order
ReturnNegative ==
    /\ pc = "neg_scan"
    /\ nidx = Len(pbs_files)
    /\ \E l \in Orders(negative) : neg_list' = <<l>>
    /\ pc' = "neg_done"
    /\ UNCHANGED <<overall, nidx>>
    /\ UNCHANGED <<dd, cc, target_year, pbs_files, claimants, positive, negative,
                   metonly, metafter, tmp_sorted>>
    /\ UNCHANGED <<scanVars, fdVars, padVars, encVars, seqVars>>

NextNegative ==
    \/ AccumulateStep
    \/ Intersect
    \/ ScanStep
    \/ ReturnNegative

SpecNegative == InitNegative /\ [][NextNegative]_vars

\* ================================================================ claims
\* the year-Y record of patient p and its rows
YearRecord(p) == dd[target_year][p]
RecordLen(p) == Len(YearRecord(p).ITM_CD)
HasMet(p) == \E i \in 1..RecordLen(p) : YearRecord(p).ITM_CD[i] \in met_items
HasNonMet(p) == \E i \in 1..RecordLen(p) : YearRecord(p).ITM_CD[i] \notin met_items

\* v is the earliest supply date, as a date, over the whole year-Y record of p
IsEarliestDate(v, p) ==
    /\ \E i \in 1..RecordLen(p) : v = to_datetime(YearRecord(p).SPPLY_DT[i])
    /\ \A i \in 1..RecordLen(p) : v <= to_datetime(YearRecord(p).SPPLY_DT[i])

\* C1: p is a key of the result of find_positive_samples(dd, cc, Y) iff p is a
\* key of the year-Y mapping, p is in cc, and p is a key of the mapping of no
\* year from 2008 to Y-1.
C1_PositiveMembership ==
    pc # "start" =>
        \A p \in Pids :
            p \in DOMAIN positive <=>
                /\ p \in DOMAIN dd[target_year]
                /\ p \in cc
                /\ \A y \in FirstYear..(target_year - 1) : p \notin DOMAIN dd[y]

\* a patient is positive while another concessional patient of year Y is left
\* out for an event in 2008 only, with no event in year Y-1
C1_Witness ==
    /\ pc = "positive"
    /\ target_year >= FirstYear + 2
    /\ \E p, q \in Pids :
          /\ p \in DOMAIN positive
          /\ q \in cc \cap DOMAIN dd[target_year]
          /\ q \in DOMAIN dd[FirstYear]
          /\ q \notin DOMAIN dd[target_year - 1]
          /\ q \notin DOMAIN positive

\* C2: p is in the result of find_negative_samples(pbs_files, dd, cc) iff p
\* is in cc, p is a claimant of at least one of the files, and p is a key of
\* the event mapping of none of the files' years.
C2_NegativeMembership ==
    pc \notin {"start", "positive"} =>
        \A p \in Pids :
            p \in negative <=>
                /\ p \in cc
                /\ \E i \in 1..Len(pbs_files) : p \in claimants[pbs_files[i]]
                /\ \A i \in 1..Len(pbs_files) : p \notin DOMAIN dd[pbs_files[i]]

\* one patient is negative, another concessional claimant is left out for an
\* event in a file after the first one
C2_Witness ==
    /\ pc = "negative"
    /\ negative # {}
    /\ \E q \in cc :
          /\ q \in claimants[pbs_files[1]] \ DOMAIN dd[pbs_files[1]]
          /\ \E i \in 2..Len(pbs_files) : q \in DOMAIN dd[pbs_files[i]]
          /\ q \notin negative

\* C3: the positive and the negative cohort share no patient, the
\* metformin-only and the metformin-then-other cohort share no patient, and
\* neither of these two shares a patient with the negative cohort.
C3_CohortsDisjoint ==
    /\ (DOMAIN positive) \cap negative = {}
    /\ (DOMAIN metonly) \cap (DOMAIN metafter) = {}
    /\ (DOMAIN metonly) \cap negative = {}
    /\ (DOMAIN metafter) \cap negative = {}

\* all cohorts are computed; one patient is negative and the other is in a
\* metformin cohort
C3_Witness ==
    /\ pc = "done"
    /\ negative # {}
    /\ (DOMAIN metonly) \cup (DOMAIN metafter) # {}

\* C4: p is a key of the result of find_metonly(dd, pos_id, Y) iff p is in the
\* positive cohort and every item code of p's year-Y record is a metformin
\* code.
C4_MetonlyMembership ==
    pc \in {"metonly", "done"} =>
        \A p \in Pids :
            p \in DOMAIN metonly <=>
                /\ p \in DOMAIN positive
                /\ \A i \in 1..RecordLen(p) : YearRecord(p).ITM_CD[i] \in met_items

\* a metformin-only patient with two rows next to a positive patient with a
\* metformin and a non-metformin row
C4_Witness ==
    /\ pc = "metonly"
    /\ \E p, q \in DOMAIN positive :
          /\ p \in DOMAIN metonly
          /\ RecordLen(p) = 2
          /\ HasMet(q) /\ HasNonMet(q)
          /\ q \notin DOMAIN metonly

\* s is the year-Y record of p rearranged in ascending order of supply date
IsSortedRecord(s, p) ==
    /\ Len(s) = RecordLen(p)
    /\ \A i \in 1..(Len(s) - 1) : s[i].SPPLY_DT <= s[i + 1].SPPLY_DT
    /\ \E f \in Permutations(1..Len(s)) :
          \A i \in 1..Len(s) :
              /\ s[i].ITM_CD = YearRecord(p).ITM_CD[f[i]]
              /\ s[i].SPPLY_DT = to_datetime(YearRecord(p).SPPLY_DT[f[i]])

\* C5: a positive patient is in the result of find_metafter iff its year-Y
\* record has a metformin code and a non-metformin code and, in the record
\* sorted by supply date, the first non-metformin row is not at position 0;
\* a positive patient whose sorted record starts with a non-metformin row is
\* in neither metformin cohort.
C5_MetafterMembership ==
    pc = "done" =>
        /\ DOMAIN metafter \subseteq DOMAIN positive
        /\ \A p \in DOMAIN tmp_sorted : IsSortedRecord(tmp_sorted[p], p)
        /\ \A p \in DOMAIN positive :
              /\ p \in DOMAIN metafter <=>
                    /\ HasMet(p) /\ HasNonMet(p)
                    /\ p \in DOMAIN tmp_sorted
                    /\ tmp_sorted[p][1].ITM_CD \in met_items
              /\ (p \in DOMAIN tmp_sorted /\ tmp_sorted[p][1].ITM_CD \notin met_items)
                    => (p \notin DOMAIN metafter /\ p \notin DOMAIN metonly)
              /\ ~HasMet(p)
                    => (p \notin DOMAIN metafter /\ p \notin DOMAIN metonly)

\* one patient is metformin-then-other; another has both kinds of code but
\* its sorted record starts with the non-metformin row
C5_Witness ==
    /\ pc = "done"
    /\ DOMAIN metafter # {}
    /\ \E q \in DOMAIN tmp_sorted :
          /\ HasNonMet(q)
          /\ tmp_sorted[q][1].ITM_CD \notin met_items
          /\ q \notin DOMAIN metafter

\* C6: the date recorded for a patient by find_positive_samples, find_metonly
\* and find_metafter is the earliest supply date of the patient's whole
\* year-Y record, so a metformin cohort records the same date as the positive
\* cohort.
C6_RecordedDate ==
    /\ \A p \in DOMAIN positive : IsEarliestDate(positive[p], p)
    /\ \A p \in DOMAIN metonly :
          IsEarliestDate(metonly[p], p) /\ metonly[p] = positive[p]
    /\ \A p \in DOMAIN metafter :
          IsEarliestDate(metafter[p], p) /\ metafter[p] = positive[p]

\* a metformin-then-other patient whose earliest date is that of the metformin
\* row, and whose later row reads "01FEB", the smaller text
C6_Witness ==
    /\ pc = "done"
    /\ \E p \in DOMAIN metafter :
          /\ YearRecord(p).ITM_CD = <<"DIA", "MET">>
          /\ YearRecord(p).SPPLY_DT = << <<1, "FEB">>, <<2, "JAN">> >>
          /\ metafter[p] = to_datetime(<<2, "JAN">>)

\* the rows of p's year-Y record, dates converted, in file order
FileOrderRows(p) ==
    [i \in 1..RecordLen(p) |->
        [PTNT_ID |-> p, ITM_CD |-> YearRecord(p).ITM_CD[i],
         SPPLY_DT |-> to_datetime(YearRecord(p).SPPLY_DT[i])]]

\* s is tmp sorted by date with equal dates left in file order
IsStableSort(s, tmp) ==
    \E f \in Permutations(1..Len(tmp)) :
        /\ s = [i \in 1..Len(tmp) |-> tmp[f[i]]]
        /\ \A i, j \in 1..Len(tmp) :
              i < j => \/ tmp[f[i]].SPPLY_DT < tmp[f[j]].SPPLY_DT
                       \/ (tmp[f[i]].SPPLY_DT = tmp[f[j]].SPPLY_DT /\ f[i] < f[j])

\* C7: in find_metafter rows with equal supply dates keep their file order
\* after the sort, so a patient whose earliest date is shared by a metformin
\* row and a non-metformin row is classified by which of them comes first in
\* the file.
C7_StableSort ==
    pc = "done" =>
        \A p \in DOMAIN tmp_sorted : IsStableSort(tmp_sorted[p], FileOrderRows(p))

\* the patients with a diabetes-code row in the file
FilteredIds ==
    {pbs[i].PTNT_ID : i \in {j \in 1..Len(pbs) : pbs[j].ITM_CD \in DiabetesCodes}}

RECURSIVE Concat(_)
Concat(ss) == IF ss = <<>> THEN <<>> ELSE Head(ss) \o Concat(Tail(ss))

Elements(seq) == {seq[i] : i \in 1..Len(seq)}

\* C8: with parallelism N the shards handed to the workers are N contiguous
\* slices of the ascending list of the unique patient ids of the filtered
\* table: pairwise disjoint, covering every id, sizes differing by at most 1.
C8_Shards ==
    spc \in {"collect", "done"} =>
        LET all == Concat(pin_splits)
        IN /\ Len(pin_splits) = n_jobs
           /\ \A i \in 1..(Len(all) - 1) : all[i] < all[i + 1]
           /\ Elements(all) = FilteredIds
           /\ \A i, j \in 1..Len(pin_splits) :
                 /\ i # j => Elements(pin_splits[i]) \cap Elements(pin_splits[j]) = {}
                 /\ Len(pin_splits[i]) - Len(pin_splits[j]) <= 1

\* three ids split over two workers: a shard of two and a shard of one
C8_Witness ==
    /\ spc = "collect"
    /\ n_jobs = 2
    /\ Len(pin_splits[1]) = 2 /\ Len(pin_splits[2]) = 1
    /\ Cardinality(FilteredIds) = 3

\* worker() run over one split from its first pin to its last
RECURSIVE WorkerLoop(_, _, _, _)
WorkerLoop(table, split, co, res) ==
    IF split = <<>> THEN res
    ELSE WorkerLoop(table, Tail(split), co, WorkerBody(table, Head(split), co, res))

\* the mapping of a scan with n_jobs = 1
SerialScan(table, co) == WorkerLoop(table, array_split(unique(table), 1)[1], co, <<>>)

\* C9: for a given loaded table and threshold the mapping returned by
\* find_diabetes_drugs_users is the one of a scan with N = 1, for every N and
\* every interleaving of the workers.
C9_ShardCountIndependent ==
    spc = "done" => ret = SerialScan(PBS_FILES_DICT, co_payment)

\* a scan over several workers, with shards of unequal size, in which two
\* workers have written a key
C9_Witness ==
    /\ spc = "done"
    /\ n_jobs = 2
    /\ Len(pin_splits[1]) = 2 /\ Len(pin_splits[2]) = 1
    /\ Elements(pin_splits[1]) \cap DOMAIN ret # {}
    /\ Elements(pin_splits[2]) \cap DOMAIN ret # {}

\* the rows of patient p with a diabetes code whose cost is not below the
\* threshold, in file order
PassingRows(p) ==
    SelectSeq(pbs, LAMBDA r :
        /\ r.PTNT_ID = p
        /\ r.ITM_CD \in DiabetesCodes
        /\ (co_payment = <<>> \/ ~(r.PTNT_CNTRBTN_AMT + r.BNFT_AMT < co_payment[1])))

\* C10: in the mapping returned by the scan of one file, p is a key iff p has
\* a diabetes-code row that passes the co-payment filter; its SPPLY_DT and
\* ITM_CD lists have equal length and hold exactly the passing rows, position
\* by position, in file order.
C10_ScanMapping ==
    spc = "done" =>
        \A p \in Pins :
            /\ p \in DOMAIN ret <=> Len(PassingRows(p)) > 0
            /\ p \in DOMAIN ret =>
                  /\ Len(ret[p].SPPLY_DT) = Len(PassingRows(p))
                  /\ Len(ret[p].ITM_CD) = Len(PassingRows(p))
                  /\ \A i \in 1..Len(PassingRows(p)) :
                        /\ ret[p].SPPLY_DT[i] = PassingRows(p)[i].SPPLY_DT
                        /\ ret[p].ITM_CD[i] = PassingRows(p)[i].ITM_CD

\* with a threshold: one patient keeps a row costing exactly the threshold and
\* loses a cheaper one, another patient has only a cheaper row and is omitted
C10_Witness ==
    /\ spc = "done"
    /\ co_payment # <<>>
    /\ \E p \in DOMAIN ret, q \in FilteredIds \ DOMAIN ret :
          /\ Len(SelectSeq(PBS_FILES_DICT, LAMBDA r : r.PTNT_ID = p)) = 2
          /\ Len(ret[p].ITM_CD) = 1
          /\ \E i \in 1..Len(pbs) :
                /\ pbs[i].PTNT_ID = p
                /\ pbs[i].ITM_CD \in DiabetesCodes
                /\ pbs[i].PTNT_CNTRBTN_AMT + pbs[i].BNFT_AMT = co_payment[1]

\* C11: if a worker of a file's scan has failed, find_diabetes_drugs_users
\* returns no mapping for that file: get() of the failed job raises, and
\* find_diabetics returns nothing, neither the mappings of the files scanned
\* before nor a mapping of the failed file.
C11_FailurePropagates ==
    /\ failed # {} =>
          /\ spc \in {"collect", "raised"}
          /\ ret = <<>>
          /\ fret = <<>>
          /\ \A i \in 1..collected : i \notin failed
    /\ spc = "raised" =>
          /\ collected + 1 \in failed
          /\ fret = <<>>
          /\ sorted_pbs_files[fidx + 1] \notin DOMAIN out

\* the scan of the second file has raised after one of its workers wrote a
\* key and another failed; the first file's mapping, not empty, was in out
C11_Witness ==
    /\ spc = "raised"
    /\ fidx = 1
    /\ out[FirstYear] # <<>>
    /\ results # <<>>
    /\ fret = <<>>

\* c is item, left-padded with zeros
IsZeroPadded(c, item) ==
    /\ Len(c) >= Len(item)
    /\ SubSeq(c, Len(c) - Len(item) + 1, Len(c)) = item
    /\ \A i \in 1..(Len(c) - Len(item)) : c[i] = "0"

\* C12: every reference code shorter than 6 characters is left-padded with
\* zeros to exactly 6 characters: once the list is normalised every code of
\* the set has length 6, whatever its original length from 1 to 6, and is the
\* zero-padded text of a code of the list.
C12_PaddedToSix ==
    pad_i = Len(raw_dd) =>
        /\ \A c \in dd_codes : Len(c) = CodeWidth
        /\ \A i \in 1..Len(raw_dd) :
              \E c \in dd_codes : IsZeroPadded(c, raw_dd[i])

\* the bucket whose text is t
int(t) == CHOOSE b \in 0..4 : str(b) = t

\* the boundary table of the gap buckets
BoundaryTable ==
    [d \in {0, 14, 15, 30, 31, 90, 91, 360, 361} |->
        CASE d \in {0, 14} -> 0
          [] d \in {15, 30} -> 1
          [] d \in {31, 90} -> 2
          [] d \in {91, 360} -> 3
          [] d = 361 -> 4]

\* C13: timespan_encoding maps 0, 14, 15, 30, 31, 90, 91, 360, 361 to the
\* buckets 0, 0, 1, 1, 2, 2, 3, 3, 4 (returned as their decimal text); for a
\* non-negative day count the result is a bucket of 0..4, not below the bucket
\* of any smaller non-negative day count; a negative day count raises and
\* returns no bucket.
C13_TimespanEncoding ==
    epc = "done" =>
        /\ days \in DOMAIN BoundaryTable => enc = str(BoundaryTable[days])
        /\ days >= 0 =>
              /\ enc \in {str(b) : b \in 0..4}
              /\ \A e \in 0..days : int(timespan_encoding(e)) <= int(enc)
        /\ days < 0 => enc = ValueError

\* the call with 15 days, the first day count of bucket 1, has returned
C13_Witness ==
    /\ epc = "done"
    /\ days = 15
    /\ enc = "1"

\* the rows of the files in the order they are read
AllMbsRows == Concat(mbs_files)

\* the service events of patient p that get_raw_data loads (with
\* exclude_pregnancy the rows with a pregnancy-list item are not loaded), and
\* those of them inside the patient's window, in file order
LoadedEvents(p) ==
    SelectSeq(AllMbsRows, LAMBDA r :
        r.PIN = p /\ ~(exclude_pregnancy /\ r.ITEM \in pregnancy_items))
InWindowEvents(p) ==
    SelectSeq(LoadedEvents(p), LAMBDA r :
        /\ dfs[p].START_DATE <= to_datetime_DOS(r.DOS)
        /\ to_datetime_DOS(r.DOS) <= dfs[p].END_DATE)

\* the number of days from event a to event b
DaysBetween(a, b) == b.DOS - a.DOS

\* C14: in every sequence of the output each gap token, at an odd position
\* counted from 0, is the gap bucket (0..4) of the number of days between the
\* two neighbouring events, not the day count.
C14_GapTokensAreBuckets ==
    qpc = "done" =>
        \A p \in DOMAIN raw_data :
            \A k \in 1..(Len(tmp_window[p]) - 1) :
                raw_data[p].seq[2 * k] =
                    timespan_encoding(DaysBetween(tmp_window[p][k], tmp_window[p][k + 1]))

\* t holds the events ev, dates converted, in ascending order of date
IsAscendingArrangement(t, ev) ==
    /\ Len(t) = Len(ev)
    /\ \A i \in 1..(Len(t) - 1) : t[i].DOS <= t[i + 1].DOS
    /\ \A i \in 1..Len(ev) :
          LET r == [ev[i] EXCEPT !.DOS = to_datetime_DOS(@)]
          IN Len(SelectSeq(t, LAMBDA x : x = r))
                = Len(SelectSeq(ev, LAMBDA x : x = ev[i]))

\* C15: for every patient of the output the sequence is built from exactly
\* the patient's service events with start_date <= d <= end_date, in
\* ascending order of date: with n such events it has 2n-1 tokens, the item
\* tokens of the events at the even positions (from 0), a gap token between
\* two neighbours at each odd position, and the item token of the latest event
\* last.
C15_SequenceLayout ==
    qpc = "done" =>
        \A p \in DOMAIN raw_data :
            LET t == tmp_window[p]
                n == Len(InWindowEvents(p))
                tokens == raw_data[p].seq
            IN /\ IsAscendingArrangement(t, InWindowEvents(p))
               /\ Len(tokens) = 2 * n - 1
               /\ \A k \in 1..n : tokens[2 * k - 1] = str(t[k].ITEM)
               /\ \A k \in 1..(n - 1) : tokens[2 * k] = str(DaysBetween(t[k], t[k + 1]))
               /\ \A k \in 1..n : t[k].DOS <= t[n].DOS
               /\ tokens[Len(tokens)] = str(t[n].ITEM)

\* a patient of the output whose file is in reverse date order, with the
\* event after the end date left out and the marked item on the end date
C15_Witness ==
    /\ qpc = "done"
    /\ 1 \in DOMAIN raw_data
    /\ Len(mbs_files[1]) = MaxEvents
    /\ \A i \in 1..(MaxEvents - 1) :
          to_datetime_DOS(mbs_files[1][i].DOS) > to_datetime_DOS(mbs_files[1][i + 1].DOS)
    /\ Len(tmp_window[1]) = Len(LoadedEvents(1)) - 1
    /\ tmp_window[1][Len(tmp_window[1])].ITEM = OtherItem
    /\ tmp_window[1][Len(tmp_window[1])].DOS = dfs[1].END_DATE

\* C16: a cohort patient with fewer than MIN_SEQ_LENGTH in-window service
\* events has no row in the output; a patient with at least MIN_SEQ_LENGTH
\* in-window events, in particular exactly MIN_SEQ_LENGTH, is not discarded by
\* the length test.
C16_MinSeqLength ==
    qpc = "done" =>
        \A p \in DOMAIN dfs :
            /\ Len(InWindowEvents(p)) < MIN_SEQ_LENGTH => p \notin DOMAIN raw_data
            /\ Len(InWindowEvents(p)) >= MIN_SEQ_LENGTH =>
                  /\ p \in DOMAIN applied
                  /\ applied[p].seq # NaN

\* C20: with exclude_pregnancy = True no patient who has a service event
\* with an item of the pregnancy list in the input files has a row in the
\* output.
C20_PregnantSubjectsExcluded ==
    (qpc = "done" /\ exclude_pregnancy) =>
        \A p \in DOMAIN raw_data :
            \A i \in 1..Len(AllMbsRows) :
                AllMbsRows[i].PIN = p => AllMbsRows[i].ITEM \notin pregnancy_items

\* C17: with an empty concession set find_positive_samples returns an empty
\* dictionary and find_negative_samples an empty list, for every event mapping
\* and every list of files; both return, neither raises.
C17_EmptyConcession ==
    cc = {} =>
        /\ pc \in {"start", "positive", "negative", "metonly", "done"}
        /\ pc # "start" => positive = <<>>
        /\ pc \notin {"start", "positive"} => negative = {}

\* both functions have returned for an empty concession set, although the
\* target year has diabetic patients and a file has a claimant with no event
C17_Witness ==
    /\ cc = {}
    /\ pc = "negative"
    /\ DOMAIN dd[target_year] # {}
    /\ \E y \in Years : claimants[y] \ DOMAIN dd[y] # {}
    /\ positive = <<>>
    /\ negative = {}

\* a record of a scanned file has a supply date in another format
HasMalformedDate ==
    \E y \in DOMAIN pbs_csv : \E i \in 1..Len(pbs_csv[y]) :
        ~matches_format(pbs_csv[y][i].SPPLY_DT)

\* C18: a supply date that is not in the day-month-year format, in any record
\* of a scanned yearly file, makes the cohort pipeline fail with an error: no
\* cohort function returns a cohort while such a date was skipped or left
\* unparsed.
C18_MalformedDateIsFatal ==
    HasMalformedDate => pc \notin {"positive", "negative", "metonly", "done"}

\* C19: for either setting of filter_copayments no patient returned by
\* find_negative_samples has a row with a diabetes-reference item code in any
\* of the input yearly files.
C19_NegativesNeverPrescribed ==
    pc \in {"negative", "metonly", "done"} =>
        \A p \in negative :
            \A y \in DOMAIN pbs_csv : \A i \in 1..Len(pbs_csv[y]) :
                pbs_csv[y][i].PTNT_ID = p => pbs_csv[y][i].ITM_CD \notin DiabetesCodes

\* C21: during the parallel scan of a file, in every interleaving of the
\* workers, a patient id is written to the shared results at most once, by the
\* job whose split holds it, and it is in the split of no other job: no write
\* replaces the value another worker has put.
C21_WriteOnceByOwner ==
    \A pin \in DOMAIN writers :
        /\ Len(writers[pin]) = 1
        /\ \A i \in DOMAIN pin_splits :
              pin \in Elements(pin_splits[i]) <=> i = writers[pin][1]
        /\ spc \in {"collect", "raised"} => pin \in DOMAIN results

\* the second file is being scanned by two jobs and each has written the one
\* id of its split
C21_Witness ==
    /\ spc = "collect"
    /\ fidx = 1
    /\ Len(pin_splits) = 2
    /\ DOMAIN writers = {1, 2}
    /\ writers[1] = <<1>>
    /\ writers[2] = <<2>>

\* C22: find_diabetes_drugs_users reads the shared results for the mapping it
\* returns only after get() has returned for every job submitted for the
\* file: when the mapping is returned every job has processed its whole
\* split, none is running or waiting to run, and the mapping is the final
\* content of the shared results.
C22_ReadAfterJobsComplete ==
    spc = "done" =>
        /\ collected = Len(pin_splits)
        /\ \A i \in DOMAIN pin_splits : WorkerDone(i)
        /\ ret = results
        /\ DOMAIN writers = DOMAIN ret

\* the scan of the second file by two jobs has returned a mapping with a key
\* of each job
C22_Witness ==
    /\ spc = "done"
    /\ fidx = 1
    /\ Len(pin_splits) = 2
    /\ Elements(pin_splits[1]) \cap DOMAIN ret # {}
    /\ Elements(pin_splits[2]) \cap DOMAIN ret # {}

\* C23: every call of find_diabetes_drugs_users ends: it returns the mapping
\* or it raises, also when a worker raises or the process of a worker dies.
C23_CoordinatorNeverWaitsForever == <>(spc \in {"done", "raised"})

\* C24: in find_negative_samples the diabetic-overall set loses no member
\* while the yearly mappings are added to it and does not change while the
\* claimant files are scanned; the negative set loses no member from one
\* scanned file to the next, and the returned list holds its elements.
C24_AccumulatorsGrow ==
    [][/\ (pc = "neg_overall" /\ pc' = "neg_overall") => overall \subseteq overall'
       /\ pc = "neg_scan" => overall' = overall
       /\ negative \subseteq negative'
       /\ pc' = "neg_done" =>
             /\ Len(neg_list'[1]) = Cardinality(negative)
             /\ Elements(neg_list'[1]) = negative']_vars

\* the files were given out of order; the accumulator got its member from a
\* file after the first, a negative was found in the first file scanned and
\* the list was returned
C24_Witness ==
    /\ pc = "neg_done"
    /\ pbs_files # SortedSeq(Years)
    /\ DOMAIN dd[pbs_files[1]] = {}
    /\ overall # {}
    /\ claimants[pbs_files[1]] \cap negative # {}
    /\ neg_list[1] # <<>>

\* C27: the set returned by find_negative_samples does not depend on the
\* order of pbs_files: the loops, run over the files in the order given, end
\* with the set that the function gives for every other order of the same
\* files.
C27_OrderIndependent ==
    pc = "neg_done" =>
        \A q \in Orders(Years) :
            Elements(neg_list[1]) = find_negative_samples(q, claimants, dd, cc)

\* the files were given out of order; a concessional claimant of the first
\* file has its diabetes row only in the last file, another claimant is
\* returned
C27_Witness ==
    /\ pc = "neg_done"
    /\ pbs_files # SortedSeq(Years)
    /\ \E p \in cc \cap claimants[pbs_files[1]] :
          /\ p \notin DOMAIN dd[pbs_files[1]]
          /\ p \notin DOMAIN dd[pbs_files[2]]
          /\ p \in DOMAIN dd[pbs_files[3]]
    /\ neg_list[1] # <<>>

\* C26: for the same dd and cc the positive cohorts of two different target
\* years share no patient: a patient returned for the target year is returned
\* for no later year, and for no earlier one.
C26_PositiveCohortsDisjoint ==
    pc \in {"positive", "negative", "metonly", "done"} =>
        \A y \in Years \ {target_year} :
            DOMAIN positive \cap DOMAIN find_positive_samples(dd, cc, y) = {}

\* a patient of the cohort of the first year has a diabetes row in a later
\* year too, a year whose own cohort is not empty
C26_Witness ==
    /\ pc = "positive"
    /\ target_year = FirstYear
    /\ \E p \in DOMAIN positive : \E y \in Years :
          /\ y > target_year
          /\ p \in DOMAIN dd[y]
          /\ DOMAIN find_positive_samples(dd, cc, y) # {}

\* C25: every cohort patient whose in-window events pass the length test of
\* extract_sequence has a row in the output of get_raw_data, also when the
\* patient's sex is missing from the lookout table or the last in-window
\* event has no PINSTATE.
C25_OneRowPerKeptPatient ==
    qpc = "done" =>
        \A p \in DOMAIN dfs :
            Len(InWindowEvents(p)) > MIN_SEQ_LENGTH =>
                /\ p \in DOMAIN raw_data
                /\ raw_data[p].seq # NaN

\* C28: every gap between two consecutive events of a patient's sequence is
\* of 0 days or more, because the events are sorted by date before the gaps
\* are taken: the gap token is the text of that number and the gap is never a
\* day count for which timespan_encoding raises.
C28_GapsNeverNegative ==
    \A p \in DOMAIN applied :
        applied[p].seq # NaN =>
            \A k \in 1..(Len(tmp_window[p]) - 1) :
                LET gap == DaysBetween(tmp_window[p][k], tmp_window[p][k + 1])
                IN /\ gap >= 0
                   /\ applied[p].seq[2 * k] = str(gap)
                   /\ timespan_encoding(gap) # ValueError

\* a sequence was built for a patient whose rows are in reverse date order in
\* the file, one of them outside the cohort's item
C28_Witness ==
    /\ qpc = "apply"
    /\ 1 \in DOMAIN applied
    /\ applied[1].seq # NaN
    /\ \A i \in 1..(Len(mbs_files[1]) - 1) :
          to_datetime_DOS(mbs_files[1][i].DOS) > to_datetime_DOS(mbs_files[1][i + 1].DOS)
    /\ \E i \in 1..Len(tmp_window[1]) : tmp_window[1][i].ITEM = OtherItem

====
